---- MODULE Spec2Model ----
(***************************************************************************)
(* Model of homework.py: the poll-check-notify loop of the homework bot.   *)
(*                                                                         *)
(* Strings: the parser accepts ASCII only, so the Russian texts of the     *)
(* source are written transliterated, character for character in meaning   *)
(* and with the same punctuation and the same interpolated values.         *)
(*                                                                         *)
(* JSON values are tagged records [t |-> <python type>, v |-> <value>];     *)
(* a JSON object (python dict) is a function from its keys to its values,  *)
(* so a key is present iff it is in the DOMAIN.                            *)
(***************************************************************************)
EXTENDS Integers, Sequences, FiniteSets, TLC

VARIABLES
    env,                    \* module globals PRACTICUM_TOKEN, TELEGRAM_TOKEN, TELEGRAM_CHAT_ID
    critical,               \* what check_tokens passed to logger.critical
    pc,                     \* position of main()
    timestamp,              \* main: the cursor sent as from_date
    current_error_message,  \* main: the last-error marker
    response,               \* main: the value get_api_answer returned in this cycle
    message,                \* main: the local `message` (status text or error text)
    error,                  \* the exception in flight / caught by `except Exception`
    \* ---- observation of the run (not program state) ----
    sent,                   \* the send_message calls of the current cycle, in order
    result,                 \* how the current cycle ended: "running", "ok", "error"
    cycle,                  \* timestamp and marker at the start of the current cycle
    prev,                   \* summary of the previous cycle
    runCalls,               \* notify calls made for the current run of identical errors
    watch,                  \* an error text notified in the current failure streak
    fetched,                \* what requests.get did in the current cycle
    slept,                  \* seconds spent in time.sleep since the last get_api_answer call
    lastFailure,            \* the exception of the most recent failing cycle
    observe                 \* whether the history observers `watch` and `lastFailure` are on

vars == <<env, critical, pc, timestamp, current_error_message, response, message,
          error, sent, result, cycle, prev, runCalls, watch, fetched, slept,
          lastFailure, observe>>

(***************************************************************************)
(* Bounds of the model.                                                    *)
(***************************************************************************)
MaxTime == 1        \* int(time.time()) and current_date range over 0..MaxTime
MaxHomeworks == 2   \* longest `homeworks` list the API returns

(***************************************************************************)
(* Program constants.                                                      *)
(***************************************************************************)
RETRY_PERIOD == 600

ENDPOINT == "https://practicum.yandex.ru/api/user_api/homework_statuses/"

HOMEWORK_VERDICTS ==
    [approved  |-> "Rabota proverena: revyueru vsyo ponravilos. Ura!",
     reviewing |-> "Rabota vzyata na proverku revyuerom.",
     rejected  |-> "Rabota proverena: u revyuera est zamechaniya."]

source == <<"PRACTICUM_TOKEN", "TELEGRAM_TOKEN", "TELEGRAM_CHAT_ID">>

(***************************************************************************)
(* Python values.                                                          *)
(***************************************************************************)
JList(s) == [t |-> "list", v |-> s]
JDict(d) == [t |-> "dict", v |-> d]
JInt(n)  == [t |-> "int", v |-> n]

\* str(type(x))
TypeName(x) == "<class '" \o x.t \o "'>"

\* dict.get(key, default)
GetAlwaysDefault(d, key, default) == default
Get(d, key, default) == IF key \in DOMAIN d THEN d[key] ELSE default

\* str(error) of an exception built from one string argument: KeyError shows
\* the repr of its argument, the other classes the argument itself.
ExcStr(type, arg) == IF type = "KeyError" THEN "'" \o arg \o "'" ELSE arg

Raise(type, arg) == [raised |-> TRUE, type |-> type, str |-> ExcStr(type, arg)]
Return(value) == [raised |-> FALSE, value |-> value]

NoError == [type |-> "", str |-> ""]
NoResponse == [t |-> "none", v |-> <<>>]

\* The classes of exceptions.py; `except Exception` in main catches them.
ExceptionsModule == {"NoEnvVarsError", "RequestToApiError"}

BuiltinExceptions ==
    {"ConnectionError", "TypeError", "KeyError", "ValueError",
     "JSONDecodeError", "ApiException", "RequestException"}

\* except Exception as error
CaughtByMain(type) == type \in BuiltinExceptions \cup ExceptionsModule

(***************************************************************************)
(* check_tokens                                                            *)
(***************************************************************************)
PyNone == "<None>"                       \* os.getenv of a variable that is not set
TokenValues == {PyNone, "", "secret"}

\* `value is None` in place of `not value`: an empty value counts as present
FalsyNoneOnly(value) == value = PyNone

\* `not value` for a token value
Falsy(value) == value \in {PyNone, ""}

\* the tuple undefined_vars after the loop over source
undefined_vars(globals) == SelectSeq(source, LAMBDA token : Falsy(globals[token]))

\* str(t)[1:-1] for a tuple t of strings: 'A', for one element (python writes
\* the trailing comma), 'A', 'B' for more
RECURSIVE ReprJoin(_)
ReprJoin(t) ==
    IF Len(t) = 1 THEN "'" \o t[1] \o "'"
    ELSE "'" \o t[1] \o "', " \o ReprJoin(Tail(t))

TupleInner(t) == IF Len(t) = 1 THEN ReprJoin(t) \o "," ELSE ReprJoin(t)

\* the argument of logger.critical
CriticalText(undefined) ==
    "Otsutstvuyut obyazatelnye peremennye okruzheniya: "
    \o TupleInner(undefined) \o ". "
    \o "Programma prinuditelno ostanovlena."

check_tokens(globals) ==
    IF undefined_vars(globals) # <<>>
    THEN Raise("NoEnvVarsError", "")
    ELSE Return(PyNone)

(***************************************************************************)
(* send_message: `outcome` is what bot.send_message does, "ok" or the      *)
(* class of the exception it raises.                                       *)
(***************************************************************************)
SendOutcomes == {"ok", "ApiException", "RequestException"}

SendCaughtApiOnly == {"ApiException"}
\* except (apihelper.ApiException, requests.RequestException)
SendCaught == {"ApiException", "RequestException"}

send_message_uncaught(outcome) ==
    IF outcome = "ok" THEN Return(PyNone) ELSE Raise(outcome, "")

send_message(outcome) ==
    IF outcome = "ok" \/ outcome \in SendCaught
    THEN Return(PyNone)
    ELSE Raise(outcome, "")

(***************************************************************************)
(* get_api_answer: `http` is what requests.get does.                       *)
(***************************************************************************)
HTTP_OK == 200

Params(ts) == "{'from_date': " \o ToString(ts) \o "}"

\* response.json()
ResponseJson(body) ==
    IF body.t = "invalid"
    THEN Raise("JSONDecodeError", "Expecting value: line 1 column 1 (char 0)")
    ELSE Return(body)

\* get_api_answer without the status test of line 98
get_api_answer_unchecked(ts, http) ==
    IF http.exc
    THEN Raise("ConnectionError",
               "Oshibka otpravki zaprosa k endpointu " \o ENDPOINT
               \o ". Parametry zaprosa: " \o Params(ts) \o ".")
    ELSE ResponseJson(http.body)

get_api_answer(ts, http) ==
    IF http.exc
    THEN Raise("ConnectionError",
               "Oshibka otpravki zaprosa k endpointu " \o ENDPOINT
               \o ". Parametry zaprosa: " \o Params(ts) \o ".")
    ELSE IF http.status_code # HTTP_OK
    THEN Raise("RequestToApiError",
               "Oshibka zaprosa k endpointu " \o ENDPOINT
               \o ". Prichina: " \o http.reason
               \o ". Kod otveta API: " \o ToString(http.status_code) \o ".")
    ELSE ResponseJson(http.body)

(***************************************************************************)
(* check_response                                                          *)
(***************************************************************************)
check_response(resp) ==
    IF resp.t # "dict"
    THEN Raise("TypeError",
               "Oshibka tipa vozvrashchaemykh dannykh. "
               \o "Poluchennyi tip dannykh: " \o TypeName(resp) \o ". "
               \o "Ozhidaemyi tip dannykh: dict. ")
    ELSE IF "homeworks" \notin DOMAIN resp.v
    THEN Raise("KeyError",
               "V otvete API otsutstvuet ozhidaemyi klyuch \"homeworks\".")
    ELSE IF resp.v["homeworks"].t # "list"
    THEN Raise("TypeError",
               "Oshibka tipa poluchennykh dannykh pod klyuchom \"homeworks\". "
               \o "Poluchennyi tip dannykh: " \o TypeName(resp.v["homeworks"]) \o ". "
               \o "Ozhidaemyi tip dannykh: list.")
    ELSE Return(PyNone)

(***************************************************************************)
(* parse_status                                                            *)
(***************************************************************************)
\* the f-string of lines 155-158 with its two fields exchanged
StatusTextSwapped(homework_name, verdict) ==
    "Izmenilsya status proverki raboty \"" \o verdict \o "\". " \o homework_name

StatusText(homework_name, verdict) ==
    "Izmenilsya status proverki raboty \"" \o homework_name \o "\". " \o verdict

\* parse_status without the membership test of line 146: the table lookup of
\* line 151 raises KeyError(homework_status) for a status that is not a key
parse_status_lookup(homework) ==
    IF "homework_name" \notin DOMAIN homework
    THEN Raise("KeyError", "V otvete API net klyucha \"homework_name\".")
    ELSE IF "status" \notin DOMAIN homework
    THEN Raise("KeyError", "V otvete API net klyucha \"status\".")
    ELSE IF homework["status"] \notin DOMAIN HOMEWORK_VERDICTS
    THEN Raise("KeyError", homework["status"])
    ELSE Return(StatusText(homework["homework_name"],
                           HOMEWORK_VERDICTS[homework["status"]]))

parse_status(homework) ==
    IF "homework_name" \notin DOMAIN homework
    THEN Raise("KeyError", "V otvete API net klyucha \"homework_name\".")
    ELSE IF "status" \notin DOMAIN homework
    THEN Raise("KeyError", "V otvete API net klyucha \"status\".")
    ELSE IF homework["status"] \notin DOMAIN HOMEWORK_VERDICTS
    THEN Raise("ValueError",
               "V otvete API neozhidannyi status domashnei raboty: "
               \o homework["status"] \o ".")
    ELSE Return(StatusText(homework["homework_name"],
                           HOMEWORK_VERDICTS[homework["status"]]))

(***************************************************************************)
(* main: the error text and the de-duplication test.                       *)
(***************************************************************************)
\* f'Sboi v rabote programmy: {error}'
\* the handler's message without its fixed prefix
ErrorMessageBare(err) == err.str

ErrorMessage(err) == "Sboi v rabote programmy: " \o err.str

ShouldNotifyAlways(marker, text) == TRUE
ShouldNotifyNever(marker, text) == FALSE
\* if current_error_message != message
ShouldNotify(marker, text) == marker # text

(***************************************************************************)
(* The inputs: what the environment, the API and Telegram can do.          *)
(***************************************************************************)
Times == 0..MaxTime

HomeworkRecords ==
    { [homework_name |-> "hw1", status |-> "approved"],
      [homework_name |-> "hw2", status |-> "rejected"],
      [homework_name |-> "hw1", status |-> "unknown"],
      [status |-> "approved"] }

SeqsUpTo(S, n) == UNION { [1..k -> S] : k \in 0..n }

HomeworksValues ==
    { JList(s) : s \in SeqsUpTo(HomeworkRecords, MaxHomeworks) } \cup { JDict(<<>>) }

DateValues == { JInt(n) : n \in Times }

Responses ==
    { JList(<<>>), JDict(<<>>) }
    \cup { JDict([homeworks |-> h]) : h \in HomeworksValues }
    \cup { JDict([current_date |-> c]) : c \in DateValues }
    \cup { JDict([homeworks |-> h, current_date |-> c]) :
             h \in HomeworksValues, c \in DateValues }

InvalidBody == [t |-> "invalid", v |-> <<>>]

HttpOutcomes ==
    { [exc |-> TRUE, status_code |-> 0, reason |-> "", body |-> NoResponse] }
    \cup { [exc |-> FALSE, status_code |-> s[1], reason |-> s[2], body |-> NoResponse] :
             s \in { <<404, "Not Found">>, <<500, "Internal Server Error">> } }
    \cup { [exc |-> FALSE, status_code |-> HTTP_OK, reason |-> "OK", body |-> b] :
             b \in Responses \cup {InvalidBody} }

(***************************************************************************)
(* The state machine of main().                                            *)
(*   pc: "start"     before check_tokens                                   *)
(*       "exited"    NoEnvVarsError left main: the process is over         *)
(*       "fetch"     top of the while loop, before get_api_answer          *)
(*       "check"     before check_response                                 *)
(*       "parse"     before parse_status(response['homeworks'][0])         *)
(*       "send"      before send_message(bot, message) of the try body     *)
(*       "advance"   before the assignment to timestamp                    *)
(*       "except"    in the handler `except Exception as error`            *)
(*       "sleep"     in `finally`, before time.sleep                       *)
(*       "crashed"   an exception left the while loop: the process is over *)
(***************************************************************************)
NoPrev == [result |-> "none", message |-> "", calls |-> 0, undelivered |-> 0,
           fresh |-> FALSE]
NoWatch == [text |-> "", again |-> FALSE]
NoLog == [undefined_vars |-> <<>>, text |-> ""]
NoHttp == [exc |-> FALSE, status_code |-> 0, reason |-> "", body |-> NoResponse]

Exc(r) == [type |-> r.type, str |-> r.str]

Texts(calls) == [i \in 1..Len(calls) |-> calls[i].text]

InitMain ==
    /\ env \in [{source[i] : i \in 1..Len(source)} -> TokenValues]
    /\ pc = "start"
    /\ timestamp = 0
    /\ current_error_message = ""
    /\ response = NoResponse
    /\ message = ""
    /\ error = NoError
    /\ sent = <<>>
    /\ result = "running"
    /\ cycle = [timestamp |-> 0, marker |-> ""]
    /\ prev = NoPrev
    /\ runCalls = 0
    /\ watch = NoWatch
    /\ critical = NoLog
    /\ fetched = NoHttp
    /\ slept = 0
    /\ lastFailure = NoError

Init == InitMain /\ observe = FALSE

\* The same program, with the streak observer switched on.
InitStreak == InitMain /\ observe = TRUE

\* An exception raised inside the try body: caught by `except Exception`, or,
\* for a class outside Exception, leaving the loop through `finally`.
ThrowInTry(r) ==
    /\ error' = Exc(r)
    /\ IF CaughtByMain(r.type)
       THEN pc' = "except" /\ result' = result
       ELSE pc' = "sleep" /\ result' = "raised"

\* main, up to the while loop
Startup ==
    /\ pc = "start"
    /\ IF check_tokens(env).raised
       THEN /\ pc' = "exited"
            /\ error' = Exc(check_tokens(env))
            /\ UNCHANGED <<timestamp, cycle>>
       ELSE /\ pc' = "fetch"
            /\ error' = error
            /\ \E now \in Times :
                 /\ timestamp' = now
                 /\ cycle' = [timestamp |-> now, marker |-> ""]
    /\ critical' = IF check_tokens(env).raised
                   THEN [undefined_vars |-> undefined_vars(env),
                         text |-> CriticalText(undefined_vars(env))]
                   ELSE critical
    /\ current_error_message' = ""
    /\ UNCHANGED <<env, response, message, sent, result, prev, runCalls, watch,
                   fetched, slept, lastFailure, observe>>

\* response = get_api_answer(timestamp)
GetApiAnswer ==
    /\ pc = "fetch"
    /\ \E h \in HttpOutcomes :
         LET r == get_api_answer(timestamp, h) IN
         /\ fetched' = h
         /\ IF r.raised
            THEN ThrowInTry(r) /\ response' = response
            ELSE response' = r.value /\ pc' = "check" /\ UNCHANGED <<error, result>>
    /\ slept' = 0
    /\ UNCHANGED <<env, critical, timestamp, current_error_message, message, sent,
                   cycle, prev, runCalls, watch, lastFailure, observe>>

\* check_response(response); if response['homeworks']: ... else: logger.debug(...)
CheckResponse ==
    /\ pc = "check"
    /\ LET r == check_response(response) IN
       IF r.raised
       THEN ThrowInTry(r)
       ELSE /\ pc' = IF response.v["homeworks"].v # <<>> THEN "parse" ELSE "advance"
            /\ UNCHANGED <<error, result>>
    /\ UNCHANGED <<env, critical, timestamp, current_error_message, response, message,
                   sent, cycle, prev, runCalls, watch, fetched, slept, lastFailure,
                   observe>>

\* ParseStatus with the cursor assigned before the record is parsed
ParseStatusAfterAdvance ==
    /\ pc = "parse"
    /\ timestamp' = Get(response.v, "current_date", JInt(timestamp)).v
    /\ LET r == parse_status(response.v["homeworks"].v[1]) IN
       IF r.raised
       THEN ThrowInTry(r) /\ message' = message
       ELSE message' = r.value /\ pc' = "send" /\ UNCHANGED <<error, result>>
    /\ UNCHANGED <<env, critical, current_error_message, response, sent, cycle,
                   prev, runCalls, watch, fetched, slept, lastFailure, observe>>

\* message = parse_status(response['homeworks'][0])
ParseStatus ==
    /\ pc = "parse"
    /\ LET r == parse_status(response.v["homeworks"].v[1]) IN
       IF r.raised
       THEN ThrowInTry(r) /\ message' = message
       ELSE message' = r.value /\ pc' = "send" /\ UNCHANGED <<error, result>>
    /\ UNCHANGED <<env, critical, timestamp, current_error_message, response, sent,
                   cycle, prev, runCalls, watch, fetched, slept, lastFailure, observe>>

\* the try body storing the sent text in the marker instead of clearing it
SendStatusMarksText ==
    /\ pc = "send"
    /\ \E outcome \in SendOutcomes :
         LET r == send_message(outcome) IN
         /\ sent' = Append(sent, [text |-> message, outcome |-> outcome, from |-> "try"])
         /\ IF r.raised
            THEN ThrowInTry(r) /\ current_error_message' = current_error_message
            ELSE /\ current_error_message' = message
                 /\ pc' = "advance"
                 /\ UNCHANGED <<error, result>>
    /\ UNCHANGED <<env, critical, timestamp, response, message, cycle, prev, runCalls,
                   watch, fetched, slept, lastFailure, observe>>

\* send_message(bot, message); current_error_message = ''
SendStatus ==
    /\ pc = "send"
    /\ \E outcome \in SendOutcomes :
         LET r == send_message(outcome) IN
         /\ sent' = Append(sent, [text |-> message, outcome |-> outcome, from |-> "try"])
         /\ IF r.raised
            THEN ThrowInTry(r) /\ current_error_message' = current_error_message
            ELSE /\ current_error_message' = ""
                 /\ pc' = "advance"
                 /\ UNCHANGED <<error, result>>
    /\ UNCHANGED <<env, critical, timestamp, response, message, cycle, prev, runCalls,
                   watch, fetched, slept, lastFailure, observe>>

\* timestamp = response.get('current_date', int(time.time()))
AdvanceCursor ==
    /\ pc = "advance"
    /\ \E now \in Times :
         timestamp' = Get(response.v, "current_date", JInt(now)).v
    /\ pc' = "sleep"
    /\ result' = "ok"
    /\ runCalls' = 0
    /\ watch' = NoWatch
    /\ UNCHANGED <<env, critical, current_error_message, response, message, error,
                   sent, cycle, prev, fetched, slept, lastFailure, observe>>

\* except Exception as error: the whole handler
Except ==
    /\ pc = "except"
    /\ LET text == ErrorMessage(error)
           continues == prev.result = "error" /\ prev.message = text
           run == IF continues THEN runCalls ELSE 0
       IN
       /\ message' = text
       /\ IF ShouldNotify(current_error_message, text)
          THEN \E outcome \in SendOutcomes :
                 LET r == send_message(outcome) IN
                 /\ sent' = Append(sent, [text |-> text, outcome |-> outcome,
                                          from |-> "except"])
                 /\ runCalls' = run + 1
                 /\ IF watch.text = ""
                    THEN \E start \in {FALSE, observe} :
                           watch' = IF start THEN [text |-> text, again |-> FALSE]
                                    ELSE watch
                    ELSE watch' = IF watch.text = text
                                  THEN [watch EXCEPT !.again = TRUE]
                                  ELSE watch
                 /\ IF r.raised
                    THEN /\ error' = Exc(r)
                         /\ result' = "raised"
                         /\ current_error_message' = current_error_message
                    ELSE /\ error' = error
                         /\ result' = "error"
                         /\ current_error_message' = text
          ELSE /\ current_error_message' = text
               /\ result' = "error"
               /\ runCalls' = run
               /\ UNCHANGED <<sent, error, watch>>
    /\ lastFailure' = IF observe THEN error ELSE lastFailure
    /\ pc' = "sleep"
    /\ UNCHANGED <<env, critical, timestamp, response, cycle, prev, fetched, slept,
                   observe>>

\* a finally clause that does not sleep
time_sleep_skipped(elapsed, secs) == elapsed

\* time.sleep(secs), on the seconds slept so far
time_sleep(elapsed, secs) == elapsed + secs

\* finally: time.sleep(RETRY_PERIOD), then the next iteration of while True,
\* or, with an exception in flight, out of the loop
Sleep ==
    /\ pc = "sleep"
    /\ IF result = "raised"
       THEN /\ pc' = "crashed"
            /\ UNCHANGED <<response, error, sent, result, cycle, prev, fetched>>
       ELSE /\ pc' = "fetch"
            /\ prev' = [result |-> result,
                        message |-> IF result = "error" THEN message ELSE "",
                        calls |-> Len(sent),
                        undelivered |->
                            Cardinality({i \in DOMAIN sent : sent[i].outcome # "ok"}),
                        fresh |-> result = "error" /\ message # cycle.marker]
            /\ cycle' = [timestamp |-> timestamp, marker |-> current_error_message]
            /\ response' = NoResponse
            /\ error' = NoError
            /\ sent' = <<>>
            /\ result' = "running"
            /\ fetched' = NoHttp
    /\ slept' = time_sleep(slept, RETRY_PERIOD)
    /\ UNCHANGED <<env, critical, timestamp, current_error_message, message, runCalls,
                   watch, lastFailure, observe>>

Next ==
    \/ Startup
    \/ GetApiAnswer
    \/ CheckResponse
    \/ ParseStatus
    \/ SendStatus
    \/ AdvanceCursor
    \/ Except
    \/ Sleep

Spec == Init /\ [][Next]_vars

\* main is one sequential thread: whenever it has a next step it takes it
\* (every blocking call returns or raises, time.sleep returns).
FairSpec == Spec /\ WF_vars(Next)

SpecStreak == InitStreak /\ [][Next]_vars

(***************************************************************************)
(* parse_status on its own: main stands before parse_status in its first   *)
(* cycle, with a response that passed check_response and whose first       *)
(* homework is any record over the keys parse_status reads.                *)
(***************************************************************************)
NameValues == {"", "hw1", "hw2"}
StatusValues == DOMAIN HOMEWORK_VERDICTS \cup {"", "unknown"}

ParseRecords ==
    { <<>> }
    \cup { [homework_name |-> n] : n \in NameValues }
    \cup { [status |-> st] : st \in StatusValues }
    \cup { [homework_name |-> n, status |-> st] : n \in NameValues, st \in StatusValues }

ParseResponses ==
    { JDict([homeworks |-> JList(<<h>>)]) : h \in ParseRecords }
    \cup { JDict([homeworks |-> JList(<<h>>), current_date |-> c]) :
             h \in ParseRecords, c \in DateValues }

InitParse ==
    /\ env = [token \in {source[i] : i \in 1..Len(source)} |-> "secret"]
    /\ pc = "parse"
    /\ timestamp \in Times
    /\ current_error_message = ""
    /\ response \in ParseResponses
    /\ message = ""
    /\ error = NoError
    /\ sent = <<>>
    /\ result = "running"
    /\ cycle = [timestamp |-> timestamp, marker |-> ""]
    /\ prev = NoPrev
    /\ runCalls = 0
    /\ watch = NoWatch
    /\ critical = NoLog
    /\ fetched = [exc |-> FALSE, status_code |-> HTTP_OK, reason |-> "OK",
                  body |-> response]
    /\ slept = 0
    /\ lastFailure = NoError
    /\ observe = FALSE

NextParse == ParseStatus

SpecParse == InitParse /\ [][NextParse]_vars

(***************************************************************************)
(* The claims.  A cycle is over when main is in `finally`, before the      *)
(* sleep: then `result` tells how it ended, `sent` holds its notify calls, *)
(* `cycle` the cursor and the marker it started with and `prev` the cycle  *)
(* before it.                                                              *)
(***************************************************************************)
CycleDone == pc = "sleep"
Failed == CycleDone /\ result = "error"
Succeeded == CycleDone /\ result = "ok"

\* the cycle and the one before it both failed, with the identical text
SameErrorTwice == Failed /\ prev.result = "error" /\ prev.message = message

\* a response of the shape the specification calls valid
ValidResponse(r) ==
    /\ r.t = "dict"
    /\ {"homeworks", "current_date"} \subseteq DOMAIN r.v
    /\ r.v["homeworks"].t = "list"

\* C1 as stated: of two consecutive cycles failing with the identical error
\* text, the first calls notify exactly once and the second not at all.
C1_OnceInFirstOfTwo == SameErrorTwice => (prev.calls = 1 /\ sent = <<>>)

\* C1 as amended: of two consecutive cycles failing with the identical error
\* text, the second never calls notify, and the first calls it exactly once
\* if its text differs from the marker it started with and not at all
\* otherwise.
C1_Dedup ==
    SameErrorTwice => (sent = <<>> /\ prev.calls = IF prev.fresh THEN 1 ELSE 0)

C1_Witness == SameErrorTwice /\ prev.calls = 1 /\ sent = <<>>

\* C2 as stated: after any cycle that completes without error the marker is
\* empty, so a failing cycle that follows a successful one always notifies.
C2_MarkerResetOnSuccess ==
    /\ Succeeded => current_error_message = ""
    /\ (Failed /\ prev.result = "ok") => Len(sent) = 1

\* C3 as stated: within a streak of consecutive failing cycles no error text
\* is notified twice, alternations such as E1, E2, E1 included.
C3_OncePerTextPerStreak == ~watch.again

\* C3 as amended: within a streak of consecutive failing cycles notify is
\* called at most once for each run of consecutive cycles failing with the
\* identical text; a text that returns after a different one is notified
\* again.
C3_OncePerRun == runCalls <= 1

C3_Witness == Failed /\ watch.again /\ runCalls = 1

\* C4: a failing cycle whose message differs from the marker the cycle
\* started with calls notify in that cycle, once, with exactly that message,
\* and ends with the marker equal to that message.
C4_NewErrorNotifies ==
    (Failed /\ ErrorMessage(error) # cycle.marker)
        => /\ Len(sent) = 1
           /\ sent[1].text = ErrorMessage(error)
           /\ current_error_message = ErrorMessage(error)

C4_Witness ==
    /\ Failed
    /\ cycle.marker # ""
    /\ ErrorMessage(error) # cycle.marker
    /\ Len(sent) = 1

\* C5: a cycle that ends in an error (fetch, validation or parse failure)
\* leaves the cursor as it was at the start of the cycle.
C5_CursorKeptOnFailure == Failed => timestamp = cycle.timestamp

\* a parse failure on a response whose current_date differs from the cursor
C5_Witness ==
    /\ Failed
    /\ ValidResponse(response)
    /\ response.v["current_date"].v # timestamp

\* C6 as stated: a response missing `homeworks` or `current_date` fails
\* validation with a missing-key error, the cycle takes the error path and
\* the cursor does not change.
C6_MissingKeyFailsValidation ==
    (CycleDone /\ response.t = "dict"
               /\ ~({"homeworks", "current_date"} \subseteq DOMAIN response.v))
        => /\ result = "error"
           /\ error.type = "KeyError"
           /\ timestamp = cycle.timestamp

\* every record of the list parses
AllParse(hw) == \A i \in DOMAIN hw : ~parse_status(hw[i]).raised

\* C7 as stated: in a cycle with a valid response and a non-empty list the
\* homework notify calls are the parse results of all the records, in list
\* order.
C7_EveryRecordNotified ==
    (CycleDone /\ ValidResponse(response)
               /\ response.v["homeworks"].v # <<>>
               /\ AllParse(response.v["homeworks"].v))
        => Texts(sent) = [i \in DOMAIN response.v["homeworks"].v |->
                             parse_status(response.v["homeworks"].v[i]).value]

\* C8: a cycle with a valid response and an empty `homeworks` list makes no
\* notify call and ends with the cursor equal to the response's current_date.
C8_EmptyListAdvancesSilently ==
    (CycleDone /\ ValidResponse(response) /\ response.v["homeworks"].v = <<>>)
        => /\ sent = <<>>
           /\ timestamp = response.v["current_date"].v

C8_Witness ==
    /\ CycleDone
    /\ ValidResponse(response)
    /\ response.v["homeworks"].v = <<>>
    /\ response.v["current_date"].v # cycle.timestamp

\* C9: once startup validation has passed no exception leaves the loop, every
\* cycle that starts reaches its sleep and every sleep is followed by the
\* next fetch.
InLoop == pc \notin {"start", "exited"}

C9_LoopNeverStops ==
    /\ [](InLoop => pc # "crashed")
    /\ (pc = "fetch") ~> (pc = "sleep")
    /\ (pc = "sleep") ~> (pc = "fetch")

\* an error cycle whose notification could not be delivered, about to sleep
C9_Witness ==
    /\ Failed
    /\ prev.result = "error"
    /\ Len(sent) = 1
    /\ sent[1].outcome # "ok"

\* C10: a send that fails never surfaces in main: after a failed send in the
\* try body the cycle goes on to advance the cursor with the marker cleared,
\* after a failed send in the handler the cycle goes on to its sleep with
\* the marker set, and no exception is in flight.
C10_NotifyNeverRaises ==
    \A i \in DOMAIN sent :
        sent[i].outcome # "ok" =>
            /\ result # "raised"
            /\ pc # "crashed"
            /\ sent[i].from = "try" =>
                   /\ pc \in {"advance", "sleep"}
                   /\ result \in {"running", "ok"}
                   /\ current_error_message = ""
            /\ sent[i].from = "except" =>
                   /\ pc = "sleep"
                   /\ result = "error"
                   /\ current_error_message = sent[i].text

C10_Witness ==
    /\ Succeeded
    /\ Len(sent) = 1
    /\ sent[1].outcome # "ok"
    /\ sent[1].from = "try"

(***************************************************************************)
(* Claims about parse_status, under SpecParse.  `Parsed` holds once        *)
(* parse_status has returned (main goes on to send) or raised (main goes   *)
(* to the handler); `Record` is the homework it was given.                 *)
(***************************************************************************)
Parsed == pc \in {"send", "except"} /\ response # NoResponse
Record == response.v["homeworks"].v[1]
ParseRaised(type) == pc = "except" /\ error.type = type
VerdictKeys == {"approved", "reviewing", "rejected"}

\* C11: parse fails with a missing-key error for every record whose
\* homework_name is absent or empty, whatever its status.
C11_NoNameFails ==
    (Parsed /\ ("homework_name" \notin DOMAIN Record \/ Record["homework_name"] = ""))
        => ParseRaised("KeyError")

\* C12 as stated: parse fails with an unrecognized-value error, not a
\* missing-key error, for every record whose status is absent or is not a key
\* of the verdict table.
C12_BadStatusIsValueError ==
    (Parsed /\ ("status" \notin DOMAIN Record \/ Record["status"] \notin VerdictKeys))
        => ParseRaised("ValueError")

\* C12 amended: a record that has homework_name and a status that is not a key
\* of the verdict table fails with an unrecognized-value error; a record
\* without the status key fails with a missing-key error, as does every
\* record without homework_name.
C12_UnknownStatusIsValueError ==
    /\ (Parsed /\ "homework_name" \in DOMAIN Record /\ "status" \in DOMAIN Record
               /\ Record["status"] \notin VerdictKeys)
           => ParseRaised("ValueError")
    /\ (Parsed /\ ("status" \notin DOMAIN Record \/ "homework_name" \notin DOMAIN Record))
           => ParseRaised("KeyError")

C12_Witness ==
    /\ Parsed
    /\ Record = [homework_name |-> "hw1", status |-> "unknown"]
    /\ ParseRaised("ValueError")
    /\ error.str = "V otvete API neozhidannyi status domashnei raboty: unknown."

\* the verdict texts of the specification, spelled out
ExpectedVerdict(status) ==
    CASE status = "approved" -> "Rabota proverena: revyueru vsyo ponravilos. Ura!"
      [] status = "reviewing" -> "Rabota vzyata na proverku revyuerom."
      [] status = "rejected" -> "Rabota proverena: u revyuera est zamechaniya."

\* C13: for every record whose status is a key of the verdict table and whose
\* homework_name is non-empty, parse succeeds and returns exactly
\* 'Izmenilsya status proverki raboty "NAME". TEXT' with NAME the record's
\* homework_name and TEXT the table's text for its status;
\* the text is a function of the record alone (nothing else of the state
\* appears in it).
C13_ParseText ==
    (Parsed /\ "homework_name" \in DOMAIN Record /\ "status" \in DOMAIN Record
            /\ Record["homework_name"] # "" /\ Record["status"] \in VerdictKeys)
        => /\ pc = "send"
           /\ message = "Izmenilsya status proverki raboty \""
                         \o Record["homework_name"] \o "\". "
                         \o ExpectedVerdict(Record["status"])

C13_Witness ==
    /\ Parsed
    /\ Record = [homework_name |-> "hw2", status |-> "reviewing"]
    /\ timestamp = 1
    /\ "current_date" \in DOMAIN response.v
    /\ message = "Izmenilsya status proverki raboty \"hw2\". Rabota vzyata na proverku revyuerom."

\* the required configuration values that are absent or empty
Absent == { token \in DOMAIN env : env[token] = PyNone \/ env[token] = "" }

\* C14: if any of the three required configuration values is absent or empty,
\* startup ends the process before the loop: no fetch, no notify and no sleep
\* is ever performed, nothing runs after the exit, and the critical
\* diagnostic names exactly the absent values; if all three are present no
\* diagnostic is logged and the loop is entered.
C14_StartupValidation ==
    /\ [](Absent # {} => pc \in {"start", "exited"})
    /\ [](pc = "exited" =>
            /\ { critical.undefined_vars[i] : i \in DOMAIN critical.undefined_vars }
                 = Absent
            /\ Len(critical.undefined_vars) = Cardinality(Absent)
            /\ fetched = NoHttp /\ response = NoResponse
            /\ sent = <<>> /\ runCalls = 0 /\ slept = 0 /\ prev = NoPrev)
    /\ [](Absent = {} => pc # "exited" /\ critical = NoLog)
    /\ [][/\ pc # "exited"
          /\ (pc = "start" /\ Absent # {}) => pc' = "exited"
          /\ (pc = "start" /\ Absent = {}) => pc' = "fetch"]_vars

C14_Witness ==
    /\ pc = "exited"
    /\ env["PRACTICUM_TOKEN"] = PyNone
    /\ env["TELEGRAM_TOKEN"] = "secret"
    /\ env["TELEGRAM_CHAT_ID"] = ""
    /\ critical.text = "Otsutstvuyut obyazatelnye peremennye okruzheniya: "
                       \o "'PRACTICUM_TOKEN', 'TELEGRAM_CHAT_ID'. "
                       \o "Programma prinuditelno ostanovlena."

\* get_api_answer has been called in the current cycle, and how it ended:
\* `response` is assigned only when it returns
Fetched == fetched # NoHttp
FetchFailed == Fetched /\ response = NoResponse
FetchReturned == Fetched /\ response # NoResponse
FetchReturnsOnlyOn200 ==
    FetchReturned => (~fetched.exc /\ fetched.status_code = 200
                      /\ response = fetched.body)

C16_CursorFromApiOnly ==
    /\ Failed => timestamp = cycle.timestamp
    /\ Succeeded => /\ "current_date" \in DOMAIN response.v
                    /\ timestamp = response.v["current_date"].v

\* C17: every cycle, failed or not, is followed by exactly one sleep of the
\* fixed retry period before the next cycle: at every fetch after the first
\* exactly one retry period has been slept since the fetch before it, no
\* sleep happens inside a cycle, and the step after the sleep is the next
\* fetch (a fetch is entered from the sleep or from startup only, and the
\* sleep itself calls nothing).
C17_OneSleepPerCycle ==
    /\ []((pc = "fetch" /\ prev.result # "none") => slept = RETRY_PERIOD)
    /\ [](pc \in {"check", "parse", "send", "advance", "except", "sleep"}
            => slept = 0)
    /\ [][/\ pc' = "fetch" => pc \in {"start", "sleep"}
          /\ pc = "sleep" => (pc' = "fetch" /\ runCalls' = runCalls
                                /\ timestamp' = timestamp
                                /\ current_error_message' = current_error_message)
          /\ pc = "fetch" => (pc' \in {"check", "except"} /\ fetched' # NoHttp)]_vars

C17_Witness ==
    /\ pc = "fetch"
    /\ slept = RETRY_PERIOD
    /\ prev.result = "error"
    /\ cycle.marker # ""

\* the cycle failed in parse_status: the response passed check_response, so
\* the exception came from the parse of a homework record
ParseFailed ==
    /\ Failed
    /\ response # NoResponse
    /\ ~check_response(response).raised

\* C18: a parse failure on a homework record is a cycle-level error: the
\* cycle sends no homework-status notification (for that record or a later
\* one), its only notify call is the error message, made if and only if the
\* message differs from the marker the cycle started with, and the marker is
\* set to that message.
C18_ParseFailureIsCycleError ==
    ParseFailed =>
        /\ error = Exc(parse_status(response.v["homeworks"].v[1]))
        /\ message = "Sboi v rabote programmy: " \o error.str
        /\ \A i \in DOMAIN sent : sent[i].text = message
        /\ Len(sent) = (IF message # cycle.marker THEN 1 ELSE 0)
        /\ current_error_message = message
        /\ timestamp = cycle.timestamp

C18_Witness ==
    /\ ParseFailed
    /\ Len(response.v["homeworks"].v) = 2
    /\ response.v["homeworks"].v[2] = [homework_name |-> "hw2", status |-> "rejected"]
    /\ error.type = "ValueError"
    /\ Len(sent) = 1
    /\ cycle.marker # ""

\* C19: the outcome of a send never influences the loop state.  The step
\* that sends leaves the marker, the cursor and the position of main with
\* values that are fixed by the state before the send alone, delivered or
\* not; so a successful cycle that notified ends with the marker empty and
\* the cursor at the response's current_date, a failing cycle ends with the
\* marker at its message, and an error text whose notification was not
\* delivered is not sent again by the next cycle failing with the same text.
C19_SendOutcomeIgnored ==
    /\ [][/\ pc = "send" => /\ pc' = "advance"
                            /\ current_error_message' = ""
                            /\ timestamp' = timestamp
                            /\ result' = result
          /\ pc = "except" => /\ pc' = "sleep"
                              /\ current_error_message'
                                   = "Sboi v rabote programmy: " \o error.str
                              /\ timestamp' = timestamp
                              /\ result' = "error"]_vars
    /\ []((Succeeded /\ sent # <<>>) =>
            /\ current_error_message = ""
            /\ "current_date" \in DOMAIN response.v
                  => timestamp = response.v["current_date"].v)
    /\ [](Failed => current_error_message = message)
    /\ []((SameErrorTwice /\ prev.undelivered > 0) => sent = <<>>)

C19_Witness ==
    /\ Failed
    /\ Len(sent) = 1
    /\ sent[1].outcome = "ApiException"
    /\ current_error_message = sent[1].text
    /\ prev.result = "ok"
    /\ prev.undelivered = 1
    /\ cycle.timestamp = 1
    /\ cycle.marker = ""

\* main is between two cycles: in `finally` or back at the top of the loop
CycleBoundary == pc \in {"sleep", "fetch"}

\* C20: at every cycle boundary the last-error marker is either empty or the
\* message of the most recent failing cycle; it is never the text of an
\* older, superseded error and never a homework-status text.
C20_MarkerIsLastFailure ==
    CycleBoundary =>
        /\ \/ current_error_message = ""
           \/ /\ lastFailure # NoError
              /\ current_error_message
                   = "Sboi v rabote programmy: " \o lastFailure.str
        /\ \A h \in HomeworkRecords :
             ~parse_status(h).raised => current_error_message # parse_status(h).value

C20_Witness ==
    /\ Succeeded
    /\ sent = <<>>
    /\ prev.result = "error"
    /\ lastFailure.type = "KeyError"
    /\ current_error_message = "Sboi v rabote programmy: " \o lastFailure.str
    /\ cycle.marker = current_error_message
    /\ cycle.timestamp # timestamp

=============================================================================
